---- MODULE Spec2Model ----
(***************************************************************************)
(* State-machine model of src/App.tsx (QuestionPaperApp): the paper data   *)
(* model (metadata, sections, questions), the blueprint -> builder          *)
(* reconciliation (initializeBuilder) and the generation pipeline          *)
(* (callGemini, executeMagicFill, handleImproveQuestion).                   *)
(*                                                                         *)
(* Conventions.                                                            *)
(*  - Arrays are sequences; the code's 0-based index i is position i + 1.   *)
(*  - The number inputs deliver canonical decimal numerals ("3"); every    *)
(*    use the code makes of them (parseInt, <, >, -, *, slice) converts    *)
(*    them to their numeric value, so they are modelled as that value.     *)
(*  - A text is a sequence of tokens (words, quotes, code fences, ...), so *)
(*    "" is << >>; null is the string "null".                               *)
(*  - A question id (Date.now() + Math.random()) is a fresh number, drawn  *)
(*    from the counter nextQid.                                             *)
(*  - Every React handler runs to completion: one action per handler; an   *)
(*    async handler is split at its awaits.                                 *)
(***************************************************************************)
EXTENDS Integers, Sequences, FiniteSets, TLC

VARIABLES
  meta,              \* useState(defaultMeta)
  sections,          \* useState(defaultSections)
  activeTab,         \* 'blueprint' | 'builder' | 'preview'
  activeSectionId,
  validationError,   \* "null" or the message
  nextQid,           \* the question ids handed out so far (ids are fresh)
  knowledgeContext,
  showLowContextWarning,
  pendingMagicSectionId,  \* 0 for null
  aiLoadingState,    \* { loading, sectionId } with sectionId 0 for null
  improvingState,    \* { sectionId, qIndex, loading }; NotImproving for null
  calls,             \* the callGemini invocations in flight, with their callers' closures
  crashed,           \* a state updater threw while rendering: React unmounted the app
  alerted,           \* the alert() dialogs the last step raised
  callResult,        \* what callGemini handed its caller in the last step
  storage,           \* localStorage: qpf_meta, qpf_sections, qpf_knowledge
  showRestorePrompt,
  found,             \* localStorage as the last page load found it
  timeArgs,          \* the start and end time the time inputs are set to
  timeResult,        \* what the time helpers return for them
  edits              \* how many edits the user has made (bounds the exploration)

genVars == <<knowledgeContext, showLowContextWarning, pendingMagicSectionId,
             aiLoadingState, improvingState, calls, crashed>>
outVars == <<alerted, callResult>>
persistVars == <<storage, showRestorePrompt, found>>
timeVars == <<timeArgs, timeResult>>
vars == <<meta, sections, activeTab, activeSectionId, validationError, nextQid,
          genVars, outVars, persistVars, timeVars, edits>>

----------------------------------------------------------------------------
(* Bounds of the model *)

\* number-input values the user types: 1..MaxCount
MaxCount == 2
\* addSection is explored while the new id stays <= MaxSectionId
MaxSectionId == 2
\* where a specification counts them, the user makes at most MaxEdits edits
\* (count and text edits, section and knowledge changes, generation requests)
MaxEdits == 3
\* a generation call is started while fewer than MaxCalls are in flight
MaxCalls == 2
\* the user edits the first MaxEditPos questions of a section
MaxEditPos == 2

\* the marks-per-question values the user types: 1..MaxMarks
MaxMarks == 5

Counts == 1..MaxCount

----------------------------------------------------------------------------
(* Constants of the program *)

SectionTypes == {"mcq", "subjective", "fillblank"}

\* initializeBuilder: requiredFields, in the order the form shows them
RequiredFields ==
  <<"schoolName", "courseName", "specializations", "courseCode", "branch",
    "semester", "examType", "academicYear", "examDate", "startTime", "endTime">>

RequiredFieldSet == {RequiredFields[i] : i \in 1..Len(RequiredFields)}

MetaFields == RequiredFieldSet \cup {"universityName", "instructions"}

defaultMeta ==
  [f \in MetaFields |->
     CASE f = "universityName" -> "ITM (SLS) BARODA UNIVERSITY"
       [] f = "academicYear"   -> "2026-2027"
       [] f = "instructions"   -> "All questions are mandatory."
       [] OTHER                -> ""]

defaultSections ==
  << [id |-> 1, title |-> "Q1", desc |-> "Multiple Choice Questions", type |-> "mcq",
      qCount |-> 6, attemptCount |-> 6, marksPerQ |-> 1, questions |-> <<>>],
     [id |-> 2, title |-> "Q2", desc |-> "Short Notes / Answer", type |-> "subjective",
      qCount |-> 4, attemptCount |-> 2, marksPerQ |-> 3, questions |-> <<>>] >>

DefaultOptions == <<"Option A", "Option B", "Option C", "Option D">>

ValidationMessage == "Please fill in all required fields marked with *"

----------------------------------------------------------------------------
(* JavaScript values *)

\* a property that is not there (a text or an options list; a string; an id)
Undefined == <<"undefined">>
UndefinedString == "undefined"
UndefinedId == 0

\* An array slot of a questions list holds an object, the value undefined, or
\* nothing (a hole of a sparse array). {} is the object with no property.
EmptyObject ==
  [slot |-> "object", id |-> UndefinedId, text |-> Undefined, options |-> Undefined,
   image |-> UndefinedString, co |-> UndefinedString, bloom |-> UndefinedString]
UndefinedSlot == [EmptyObject EXCEPT !.slot = "undefined"]
Hole == [EmptyObject EXCEPT !.slot = "hole"]

\* !text
FalsyText(text) == text = <<>> \/ text = Undefined

----------------------------------------------------------------------------
(* Helpers *)

SeqIndex(seq) == 1..Len(seq)

Max(S) == CHOOSE x \in S : \A y \in S : y <= x

SectionIds(secs) == {secs[i].id : i \in SeqIndex(secs)}

\* sections.find(s => s.id === id): the position of the first match, 0 if none
FindSection(secs, id) ==
  IF \E i \in SeqIndex(secs) : secs[i].id = id
  THEN CHOOSE i \in SeqIndex(secs) :
         /\ secs[i].id = id
         /\ \A j \in 1..(i - 1) : secs[j].id # id
  ELSE 0

\* Array.prototype.filter
RECURSIVE FilterOutId(_, _)
FilterOutId(secs, id) ==
  IF secs = <<>> THEN <<>>
  ELSE IF Head(secs).id # id
       THEN <<Head(secs)>> \o FilterOutId(Tail(secs), id)
       ELSE FilterOutId(Tail(secs), id)

----------------------------------------------------------------------------
(* Paper model: section mutators *)

\* variant: the new section numbered by its position in the list
NewSection_PositionId(secs) ==
  [id |-> Len(secs) + 1,
   title |-> "Q" \o ToString(Len(secs) + 1),
   desc |-> "Subjective Questions", type |-> "subjective",
   qCount |-> 3, attemptCount |-> 3, marksPerQ |-> 5, questions |-> <<>>]

\* addSection: the record it appends
NewSection(secs) ==
  [id |-> Max({0} \cup SectionIds(secs)) + 1,
   title |-> "Q" \o ToString(Len(secs) + 1),
   desc |-> "Subjective Questions", type |-> "subjective",
   qCount |-> 3, attemptCount |-> 3, marksPerQ |-> 5, questions |-> <<>>]

addSection ==
  /\ sections' = Append(sections, NewSection(sections))
  /\ activeSectionId' = IF activeTab = "builder" THEN NewSection(sections).id
                        ELSE activeSectionId
  /\ UNCHANGED <<meta, activeTab, validationError, nextQid, genVars>>

\* UpdatedSection with the multiple-choice rule applied only when the type is set
UpdatedSection_ForceOnTypeOnly(s, field, value) ==
  LET updated == [s EXCEPT ![field] = value] IN
  IF field = "type" /\ value = "mcq"
  THEN [updated EXCEPT !.attemptCount = updated.qCount]
  ELSE IF field = "qCount" /\ updated.type # "mcq" /\ value < s.attemptCount
       THEN [updated EXCEPT !.attemptCount = value]
       ELSE updated

\* UpdatedSection with attemptCount following every qCount change
UpdatedSection_Resync(s, field, value) ==
  LET updated == [s EXCEPT ![field] = value] IN
  IF updated.type = "mcq" \/ field = "qCount"
  THEN [updated EXCEPT !.attemptCount = updated.qCount]
  ELSE updated

\* updateSection: the callback applied to the section whose id matches
UpdatedSection(s, field, value) ==
  LET updated == [s EXCEPT ![field] = value] IN
  IF updated.type = "mcq"
  THEN [updated EXCEPT !.attemptCount = updated.qCount]
  ELSE IF field = "qCount" /\ value < s.attemptCount
       THEN [updated EXCEPT !.attemptCount = value]
       ELSE updated

updateSection(id, field, value) ==
  /\ sections' = [i \in SeqIndex(sections) |->
                    IF sections[i].id # id THEN sections[i]
                    ELSE UpdatedSection(sections[i], field, value)]
  /\ UNCHANGED <<meta, activeTab, activeSectionId, validationError, nextQid, genVars>>

\* variant: deleteSection without the check of the list's length
deleteSection_NoLengthCheck(id) ==
  /\ LET newSections == FilterOutId(sections, id) IN
     /\ sections' = newSections
     /\ activeSectionId' = IF activeSectionId = id /\ newSections # <<>>
                           THEN newSections[1].id ELSE activeSectionId
  /\ UNCHANGED <<meta, activeTab, validationError, nextQid, genVars>>

deleteSection(id) ==
  /\ IF Len(sections) > 1
     THEN LET newSections == FilterOutId(sections, id) IN
          /\ sections' = newSections
          /\ activeSectionId' = IF activeSectionId = id THEN newSections[1].id
                                ELSE activeSectionId
     ELSE UNCHANGED <<sections, activeSectionId>>
  /\ UNCHANGED <<meta, activeTab, validationError, nextQid, genVars>>

----------------------------------------------------------------------------
(* Time helpers. A string is the sequence of its characters; a number put into
   a template literal is its decimal numeral. *)

Digits == <<"0", "1", "2", "3", "4", "5", "6", "7", "8", "9">>

\* the numeral of n, as many digits as it needs
RECURSIVE Numeral(_)
Numeral(n) ==
  IF n < 10 THEN <<Digits[n + 1]>> ELSE Numeral(n \div 10) \o <<Digits[(n % 10) + 1]>>

\* what <input type="time"> delivers for hour h and minute m: "HH:MM"
TimeString(h, m) ==
  <<Digits[(h \div 10) + 1], Digits[(h % 10) + 1], ":",
    Digits[(m \div 10) + 1], Digits[(m % 10) + 1]>>

\* timeStr.split(':'): the parts before and after the colon
BeforeColon(str) ==
  SubSeq(str, 1, (CHOOSE i \in SeqIndex(str) : str[i] = ":" /\ \A j \in 1..(i - 1) : str[j] # ":") - 1)
AfterColon(str) ==
  SubSeq(str, (CHOOSE i \in SeqIndex(str) : str[i] = ":" /\ \A j \in 1..(i - 1) : str[j] # ":") + 1,
         Len(str))

\* Number(part) and parseInt(part, 10) of a string of decimal digits
DigitValue(c) == (CHOOSE d \in SeqIndex(Digits) : Digits[d] = c) - 1
RECURSIVE ToNumber(_)
ToNumber(part) ==
  IF part = <<>> THEN 0
  ELSE 10 * ToNumber(SubSeq(part, 1, Len(part) - 1)) + DigitValue(part[Len(part)])

\* String.prototype.trim on a sequence of characters
RECURSIVE TrimSpaces(_)
TrimSpaces(str) ==
  IF str # <<>> /\ Head(str) = " " THEN TrimSpaces(Tail(str))
  ELSE IF str # <<>> /\ str[Len(str)] = " " THEN TrimSpaces(SubSeq(str, 1, Len(str) - 1))
  ELSE str

\* variant: the suffix turns to PM only after hour 12
formatTime12Hour_PmAfterNoon(timeStr) ==
  IF timeStr = <<>> THEN <<>>
  ELSE LET h == ToNumber(BeforeColon(timeStr))
           suffix == IF h > 12 THEN <<"P", "M">> ELSE <<"A", "M">>
           hour12 == IF h % 12 # 0 THEN h % 12 ELSE 12
       IN Numeral(hour12) \o <<":">> \o AfterColon(timeStr) \o <<" ">> \o suffix

formatTime12Hour(timeStr) ==
  IF timeStr = <<>> THEN <<>>
  ELSE LET h == ToNumber(BeforeColon(timeStr))
           suffix == IF h >= 12 THEN <<"P", "M">> ELSE <<"A", "M">>
           hour12 == IF h % 12 # 0 THEN h % 12 ELSE 12
       IN Numeral(hour12) \o <<":">> \o AfterColon(timeStr) \o <<" ">> \o suffix

\* variant: a negative difference is not wrapped to the next day
calculateDurationText_NoWrap(start, end) ==
  IF start = <<>> \/ end = <<>> THEN <<>>
  ELSE LET d == (ToNumber(BeforeColon(end)) * 60 + ToNumber(AfterColon(end)))
                - (ToNumber(BeforeColon(start)) * 60 + ToNumber(AfterColon(start)))
           diffM == IF d < 0 THEN 0 - d ELSE d
           hours == diffM \div 60
           minutes == diffM % 60
           hrPart == IF hours > 0 THEN Numeral(hours) \o <<" ", "H", "r", " ">> ELSE <<>>
           minPart == IF minutes > 0 THEN Numeral(minutes) \o <<" ", "M", "i", "n", "s">> ELSE <<>>
       IN IF hours = 0 /\ minutes = 0 THEN <<>> ELSE TrimSpaces(hrPart \o minPart)

calculateDurationText(start, end) ==
  IF start = <<>> \/ end = <<>> THEN <<>>
  ELSE LET d == (ToNumber(BeforeColon(end)) * 60 + ToNumber(AfterColon(end)))
                - (ToNumber(BeforeColon(start)) * 60 + ToNumber(AfterColon(start)))
           diffM == IF d < 0 THEN d + 24 * 60 ELSE d
           hours == diffM \div 60
           minutes == diffM % 60
           hrPart == IF hours > 0 THEN Numeral(hours) \o <<" ", "H", "r", " ">> ELSE <<>>
           minPart == IF minutes > 0 THEN Numeral(minutes) \o <<" ", "M", "i", "n", "s">> ELSE <<>>
       IN IF hours = 0 /\ minutes = 0 THEN <<>> ELSE TrimSpaces(hrPart \o minPart)

\* the times the inputs are set to in the model: every start time of the day,
\* and the end times of every hour at the minutes at and next to its ends
Hours == 0..23
Minutes == 0..59
EndMinutes == {0, 1, 5, 30, 59}
NoTimes == [sh |-> 0, sm |-> 0, eh |-> 0, em |-> 0]
NotComputed == [duration |-> <<"?">>, from |-> <<"?">>, to |-> <<"?">>]

----------------------------------------------------------------------------
(* Derived values of the paper *)

\* variant: counts every question of a section, not the ones to attempt
totalPaperMarks_AllQuestions(secs) ==
  LET RECURSIVE reduce(_, _)
      reduce(acc, rest) ==
        IF rest = <<>> THEN acc
        ELSE reduce(acc + Head(rest).qCount * Head(rest).marksPerQ, Tail(rest))
  IN reduce(0, secs)

\* sections.reduce((acc, s) => acc + (s.attemptCount * s.marksPerQ), 0)
totalPaperMarks(secs) ==
  LET RECURSIVE reduce(_, _)
      reduce(acc, rest) ==
        IF rest = <<>> THEN acc
        ELSE reduce(acc + Head(rest).attemptCount * Head(rest).marksPerQ, Tail(rest))
  IN reduce(0, secs)

InternalThreshold == 30
examCategory(total) ==
  IF total <= InternalThreshold THEN "INTERNAL / REMEDIAL" ELSE "EXTERNAL / FINAL"

----------------------------------------------------------------------------
(* Structural sync: initializeBuilder *)

\* missing with 'specializations' left out of requiredFields
missing_NoSpecializations(m) ==
  {f \in RequiredFieldSet \ {"specializations"} : m[f] = ""}

\* requiredFields.filter(field => !meta[field])
missing(m) == {f \in RequiredFieldSet : m[f] = ""}

\* the object initializeBuilder pushes
NewQuestion(qid, type) ==
  [slot |-> "object", id |-> qid, text |-> <<>>,
   options |-> IF type = "mcq" THEN DefaultOptions ELSE <<>>,
   image |-> "null", co |-> "CO1", bloom |-> "R"]

\* [...questions]: spreading an array turns its holes into undefined elements
Dense(qs) == [j \in SeqIndex(qs) |-> IF qs[j].slot = "hole" THEN UndefinedSlot ELSE qs[j]]

\* how many questions initializeBuilder creates for a section
Needed(section) ==
  IF Len(section.questions) < section.qCount
  THEN section.qCount - Len(section.questions) ELSE 0

\* how many questions the sections before position k make initializeBuilder create
RECURSIVE NeededBefore(_, _)
NeededBefore(secs, k) ==
  IF k <= 1 THEN 0 ELSE NeededBefore(secs, k - 1) + Needed(secs[k - 1])

\* ReconcileSection cutting one question too many
ReconcileSection_SliceShort(section, base) ==
  LET currentQs == Dense(section.questions) IN
  IF Len(currentQs) < section.qCount
  THEN [section EXCEPT !.questions =
          currentQs \o [i \in 1..(section.qCount - Len(currentQs)) |->
                          NewQuestion(base + i, section.type)]]
  ELSE IF Len(currentQs) > section.qCount
       THEN [section EXCEPT !.questions = SubSeq(currentQs, 1, section.qCount - 1)]
       ELSE section

\* ReconcileSection pushing one question more than needed
ReconcileSection_PushExtra(section, base) ==
  LET currentQs == Dense(section.questions) IN
  IF Len(currentQs) <= section.qCount
  THEN [section EXCEPT !.questions =
          currentQs \o [i \in 1..(section.qCount - Len(currentQs) + 1) |->
                          NewQuestion(base + i, section.type)]]
  ELSE [section EXCEPT !.questions = SubSeq(currentQs, 1, section.qCount)]

\* ReconcileSection numbering the questions it pushes by their index
ReconcileSection_IndexIds(section, base) ==
  LET currentQs == Dense(section.questions) IN
  IF Len(currentQs) < section.qCount
  THEN [section EXCEPT !.questions =
          currentQs \o [i \in 1..(section.qCount - Len(currentQs)) |->
                          NewQuestion(Len(currentQs) + i, section.type)]]
  ELSE IF Len(currentQs) > section.qCount
       THEN [section EXCEPT !.questions = SubSeq(currentQs, 1, section.qCount)]
       ELSE section

\* the body of sections.map in initializeBuilder; ids base+1, base+2, ... are fresh
ReconcileSection(section, base) ==
  LET currentQs == Dense(section.questions) IN
  IF Len(currentQs) < section.qCount
  THEN [section EXCEPT !.questions =
          currentQs \o [i \in 1..(section.qCount - Len(currentQs)) |->
                          NewQuestion(base + i, section.type)]]
  ELSE IF Len(currentQs) > section.qCount
       THEN [section EXCEPT !.questions = SubSeq(currentQs, 1, section.qCount)]
       ELSE section

Reconcile(secs, base) ==
  [k \in SeqIndex(secs) |-> ReconcileSection(secs[k], base + NeededBefore(secs, k))]

\* variant: initializeBuilder leaving the active section pointer alone
initializeBuilder_NoRepair ==
  IF missing(meta) # {}
  THEN /\ validationError' = ValidationMessage
       /\ UNCHANGED <<meta, sections, activeTab, activeSectionId, nextQid, genVars>>
  ELSE LET newSections == Reconcile(sections, nextQid)
           used == NeededBefore(sections, Len(sections) + 1) IN
       /\ validationError' = "null"
       /\ UNCHANGED genVars
       /\ sections' = newSections
       /\ nextQid' = nextQid + used
       /\ activeTab' = "builder"
       /\ UNCHANGED <<meta, activeSectionId>>

initializeBuilder ==
  IF missing(meta) # {}
  THEN /\ validationError' = ValidationMessage
       /\ UNCHANGED <<meta, sections, activeTab, activeSectionId, nextQid, genVars>>
  ELSE LET newSections == Reconcile(sections, nextQid)
           used == NeededBefore(sections, Len(sections) + 1) IN
       /\ validationError' = "null"
       /\ UNCHANGED genVars
       /\ sections' = newSections
       /\ nextQid' = nextQid + used
       /\ activeTab' = "builder"
       /\ activeSectionId' = IF FindSection(newSections, activeSectionId) = 0
                             THEN newSections[1].id ELSE activeSectionId
       /\ UNCHANGED meta

\* the tab buttons other than 'builder', 'Back to Structure', 'Preview Paper'
setActiveTab(tab) ==
  /\ activeTab' = tab
  /\ UNCHANGED <<meta, sections, activeSectionId, validationError, nextQid, genVars>>

\* the section buttons of the builder's side bar
setActiveSectionId(id) ==
  /\ activeSectionId' = id
  /\ UNCHANGED <<meta, sections, activeTab, validationError, nextQid, genVars>>

\* a metadata input's onChange: setMeta({...meta, [field]: value})
setMeta(field, value) ==
  /\ meta' = [meta EXCEPT ![field] = value]
  /\ UNCHANGED <<sections, activeTab, activeSectionId, validationError, nextQid, genVars>>

\* updateQuestion's callback on the matching section's list:
\* newQs = [...s.questions]; newQs[qIndex] = { ...newQs[qIndex], [field]: value }
\* (an index past the end lengthens the array and leaves holes before it)
UpdatedQuestions(qs, pos, field, value) ==
  LET newQs == Dense(qs)
      old == IF pos <= Len(qs) /\ newQs[pos].slot = "object" THEN newQs[pos]
             ELSE EmptyObject IN
  [j \in 1..(IF pos > Len(qs) THEN pos ELSE Len(qs)) |->
     IF j = pos THEN [old EXCEPT ![field] = value]
     ELSE IF j <= Len(qs) THEN newQs[j] ELSE Hole]

\* setSections(prev => prev.map(...)) of updateQuestion
UpdateQuestionIn(secs, sectionId, pos, field, value) ==
  [i \in SeqIndex(secs) |->
     IF secs[i].id # sectionId THEN secs[i]
     ELSE [secs[i] EXCEPT !.questions =
             UpdatedQuestions(secs[i].questions, pos, field, value)]]

updateQuestion(sectionId, pos, field, value) ==
  /\ sections' = UpdateQuestionIn(sections, sectionId, pos, field, value)
  /\ UNCHANGED <<meta, activeTab, activeSectionId, validationError, nextQid, genVars>>

----------------------------------------------------------------------------
(* Generation pipeline: the texts the remote service may answer *)

Fence == "<fence>"
FenceJson == "<fence>json"
Quote == "\""
Bold == "**"
Space == " "

\* The tokens that are a JSON document, and the value JSON.parse gives for each.
JsonArrayFull == "[{text,options,bloom,co},{text,options,bloom,co}]"
JsonArrayBare == "[{text},{text}]"
JsonObjectFull == "{text,options}"
JsonObjectBare == "{text}"
\* documents that parse but lack the text the prompt mandates
JsonArrayNoText == "[{bloom,co},{text}]"
JsonObjectNoText == "{options}"
JsonTokens ==
  {JsonArrayFull, JsonArrayBare, JsonObjectFull, JsonObjectBare,
   JsonArrayNoText, JsonObjectNoText}

JsonValue(tok) ==
  CASE tok = JsonArrayFull ->
         [shape |-> "array", text |-> Undefined, options |-> Undefined,
          items |-> << [text |-> <<"generated", "1">>, options |-> <<"a1", "b1", "c1", "d1">>,
                        bloom |-> "AP", co |-> "CO2"],
                       [text |-> <<"generated", "2">>, options |-> <<"a2", "b2", "c2", "d2">>,
                        bloom |-> "U", co |-> "CO3"] >>]
    [] tok = JsonArrayBare ->
         [shape |-> "array", text |-> Undefined, options |-> Undefined,
          items |-> << [text |-> <<"generated", "3">>, options |-> Undefined,
                        bloom |-> UndefinedString, co |-> UndefinedString],
                       [text |-> <<"generated", "4">>, options |-> Undefined,
                        bloom |-> UndefinedString, co |-> UndefinedString] >>]
    [] tok = JsonObjectFull ->
         [shape |-> "object", text |-> <<"revised">>,
          options |-> <<"ra", "rb", "rc", "rd">>, items |-> <<>>]
    [] tok = JsonObjectBare ->
         [shape |-> "object", text |-> <<"revised">>, options |-> Undefined, items |-> <<>>]
    [] tok = JsonArrayNoText ->
         [shape |-> "array", text |-> Undefined, options |-> Undefined,
          items |-> << [text |-> Undefined, options |-> Undefined,
                        bloom |-> "AN", co |-> "CO4"],
                       [text |-> <<"generated", "5">>, options |-> Undefined,
                        bloom |-> UndefinedString, co |-> UndefinedString] >>]
    [] tok = JsonObjectNoText ->
         [shape |-> "object", text |-> Undefined,
          options |-> <<"oa", "ob", "oc", "od">>, items |-> <<>>]

\* .replace(/<fence>json/g, '').replace(/<fence>/g, ''), <fence> being three backquotes
StripFences(raw) == SelectSeq(raw, LAMBDA t : t # FenceJson /\ t # Fence)

\* .trim()
RECURSIVE TrimLeft(_)
TrimLeft(raw) ==
  IF raw # <<>> /\ Head(raw) = Space THEN TrimLeft(Tail(raw)) ELSE raw
RECURSIVE TrimRight(_)
TrimRight(raw) ==
  IF raw # <<>> /\ raw[Len(raw)] = Space THEN TrimRight(SubSeq(raw, 1, Len(raw) - 1)) ELSE raw
Trim(raw) == TrimRight(TrimLeft(raw))

\* .replace(/^"|"$/g, ''): one quote at the very start, one at the very end
StripOuterQuotes(raw) ==
  LET a == IF raw # <<>> /\ Head(raw) = Quote THEN Tail(raw) ELSE raw IN
  IF a # <<>> /\ a[Len(a)] = Quote THEN SubSeq(a, 1, Len(a) - 1) ELSE a

\* .replace(/\*\*/g, '')
StripBold(raw) == SelectSeq(raw, LAMBDA t : t # Bold)

\* JSON.parse succeeds on exactly one document (white space around it allowed)
JsonParses(raw) == Len(Trim(raw)) = 1 /\ Trim(raw)[1] \in JsonTokens
JsonParse(raw) == JsonValue(Trim(raw)[1])

\* variant: keeps the JSON documents of the reply and drops everything around them
CleanReply_ExtractsJson(rawText) == SelectSeq(rawText, LAMBDA t : t \in JsonTokens)

\* executeMagicFill: rawText.replace(...).replace(...).trim()
CleanReply(rawText) == Trim(StripFences(rawText))

\* handleImproveQuestion, subjective branch: the text it stores
CleanText(responseText) == Trim(StripBold(StripOuterQuotes(responseText)))

\* what the service answers in the model
ReplyTexts ==
  { <<>>,
    <<"Sorry,", Space, "no">>,
    <<FenceJson, Space, JsonArrayFull, Space, Fence>>,
    <<JsonArrayBare>>,
    <<"Here:", Space, JsonArrayFull>>,
    <<JsonObjectFull>>,
    <<Quote, Bold, "revised", Bold, Quote>> }

\* replies of every shape: the above and the documents without the mandated text
ShapeReplyTexts == ReplyTexts \cup { <<JsonArrayNoText>>, <<JsonObjectNoText>> }

\* What one attempt of callGemini gets from the network: fetch rejects, or it
\* resolves with a response that is ok or not and whose body is JSON or not;
\* text is data.candidates?.[0]?.content?.parts?.[0]?.text of a JSON body.
Responses ==
  { [fetch |-> "rejected", ok |-> FALSE, json |-> FALSE, text |-> Undefined],
    [fetch |-> "resolved", ok |-> FALSE, json |-> TRUE, text |-> Undefined],
    [fetch |-> "resolved", ok |-> TRUE, json |-> FALSE, text |-> Undefined],
    [fetch |-> "resolved", ok |-> TRUE, json |-> TRUE, text |-> Undefined] }
  \cup { [fetch |-> "resolved", ok |-> TRUE, json |-> TRUE, text |-> t] : t \in ReplyTexts }

\* the error the try block of an attempt throws on response r, NoError if none
NoError == "none"
AttemptError(r) ==
  IF r.fetch = "rejected" THEN "TypeError: Failed to fetch"
  ELSE IF ~r.ok THEN "Error: API Error: 500"
  ELSE IF ~r.json THEN "SyntaxError: Unexpected token"
  ELSE NoError

\* the value the try block returns: the candidate text || ""
AttemptText(r) == IF FalsyText(r.text) THEN <<>> ELSE r.text

ImproveActions == {"rephrase", "easier", "harder"}

----------------------------------------------------------------------------
(* Generation pipeline: callGemini *)

delays == <<1000, 2000, 4000>>

NoResult == [outcome |-> "none", attempts |-> 0, waited |-> <<>>, error |-> NoError]

\* a call as it starts: loop index i = 0 and the first fetch issued. The record
\* holds what the caller's closure keeps for after the await (the target and the
\* section's type); the prompt goes to the service and is not kept.
NewCall(kind, sectionId, pos, type) ==
  [kind |-> kind, sectionId |-> sectionId, pos |-> pos, type |-> type,
   i |-> 0, phase |-> "fetch", attempts |-> 1, waited |-> <<>>]

\* variant: every round sleeps the first delay
CallAfterFailure_FirstDelayOnly(c) ==
  IF c.i = Len(delays) THEN [c EXCEPT !.phase = "thrown"]
  ELSE [c EXCEPT !.phase = "sleep", !.waited = Append(@, delays[1])]

\* the catch block of callGemini's loop: rethrow on the last round, else sleep delays[i]
CallAfterFailure(c) ==
  IF c.i = Len(delays) THEN [c EXCEPT !.phase = "thrown"]
  ELSE [c EXCEPT !.phase = "sleep", !.waited = Append(@, delays[c.i + 1])]

\* the timer fired: i++ and the next fetch
CallAfterSleep(c) ==
  [c EXCEPT !.i = @ + 1, !.phase = "fetch", !.attempts = @ + 1]

RemoveAt(seq, k) == SubSeq(seq, 1, k - 1) \o SubSeq(seq, k + 1, Len(seq))

\* an attempt fails (fetch rejects, the status is not ok, or the body is not JSON)
\* on a round that is not the last: callGemini sleeps
AttemptFailsRetry(k, error) ==
  /\ calls[k].phase = "fetch"
  /\ CallAfterFailure(calls[k]).phase = "sleep"
  /\ calls' = [calls EXCEPT ![k] = CallAfterFailure(calls[k])]
  /\ alerted' = <<>>
  /\ callResult' = NoResult
  /\ UNCHANGED <<meta, sections, activeTab, activeSectionId, validationError, nextQid,
                 knowledgeContext, showLowContextWarning, pendingMagicSectionId,
                 aiLoadingState, improvingState, crashed>>

TimerFires(k) ==
  /\ calls[k].phase = "sleep"
  /\ calls' = [calls EXCEPT ![k] = CallAfterSleep(calls[k])]
  /\ alerted' = <<>>
  /\ callResult' = NoResult
  /\ UNCHANGED <<meta, sections, activeTab, activeSectionId, validationError, nextQid,
                 knowledgeContext, showLowContextWarning, pendingMagicSectionId,
                 aiLoadingState, improvingState, crashed>>

\* what the caller gets when callGemini throws / returns
Thrown(c, error) ==
  [outcome |-> "thrown", attempts |-> c.attempts, waited |-> c.waited,
   error |-> error]
Returned(c) ==
  [outcome |-> "returned", attempts |-> c.attempts, waited |-> c.waited,
   error |-> NoError]

----------------------------------------------------------------------------
(* Generation pipeline: single-question revision *)

NotImproving == [sectionId |-> 0, qIndex |-> 0, loading |-> FALSE]

ImproveFailedMessage == "AI improvement failed. Please try again."
GenerationFailedMessage == "AI Generation failed. Try again."

\* variant: handleImproveQuestion without the check of the question's text
handleImproveQuestion_NoTextCheck(sectionId, pos, action) ==
  LET k == FindSection(sections, sectionId) IN
  /\ IF k = 0
     THEN UNCHANGED <<improvingState, calls>>
     ELSE /\ improvingState' = [sectionId |-> sectionId, qIndex |-> pos, loading |-> TRUE]
          /\ calls' = Append(calls, NewCall("improve", sectionId, pos, sections[k].type))
  /\ UNCHANGED <<meta, sections, activeTab, activeSectionId, validationError, nextQid,
                 knowledgeContext, showLowContextWarning, pendingMagicSectionId,
                 aiLoadingState, crashed>>

\* handleImproveQuestion up to its await
handleImproveQuestion(sectionId, pos, action) ==
  LET k == FindSection(sections, sectionId) IN
  /\ IF k = 0 \/ FalsyText(sections[k].questions[pos].text)
     THEN UNCHANGED <<improvingState, calls>>
     ELSE /\ improvingState' = [sectionId |-> sectionId, qIndex |-> pos, loading |-> TRUE]
          /\ calls' = Append(calls, NewCall("improve", sectionId, pos, sections[k].type))
  /\ UNCHANGED <<meta, sections, activeTab, activeSectionId, validationError, nextQid,
                 knowledgeContext, showLowContextWarning, pendingMagicSectionId,
                 aiLoadingState, crashed>>

\* the sections after handleImproveQuestion applied a reply that did not throw
ImprovedSections(secs, c, responseText) ==
  IF c.type = "mcq"
  THEN LET data == JsonParse(CleanReply(responseText))
           s1 == UpdateQuestionIn(secs, c.sectionId, c.pos, "text", data.text) IN
       IF data.options # Undefined
       THEN UpdateQuestionIn(s1, c.sectionId, c.pos, "options", data.options)
       ELSE s1
  ELSE UpdateQuestionIn(secs, c.sectionId, c.pos, "text", CleanText(responseText))

\* JSON.parse throws in the multiple-choice branch
ImproveThrows(c, responseText) ==
  c.type = "mcq" /\ ~JsonParses(CleanReply(responseText))

\* handleImproveQuestion after its await returned responseText
ImproveResume(k, responseText) ==
  LET c == calls[k] IN
  /\ IF ImproveThrows(c, responseText)
     THEN /\ alerted' = <<ImproveFailedMessage>>
          /\ UNCHANGED sections
     ELSE /\ alerted' = <<>>
          /\ sections' = ImprovedSections(sections, c, responseText)
  /\ improvingState' = NotImproving
  /\ calls' = RemoveAt(calls, k)
  /\ callResult' = Returned(c)
  /\ UNCHANGED <<meta, activeTab, activeSectionId, validationError, nextQid,
                 knowledgeContext, showLowContextWarning, pendingMagicSectionId,
                 aiLoadingState, crashed>>

\* variant: the revision's failure path without the finally block
ImproveCatch_KeepsBusy(k, error) ==
  LET c == calls[k] IN
  /\ alerted' = <<ImproveFailedMessage>>
  /\ calls' = RemoveAt(calls, k)
  /\ callResult' = Thrown(c, error)
  /\ UNCHANGED <<meta, sections, activeTab, activeSectionId, validationError, nextQid,
                 knowledgeContext, showLowContextWarning, pendingMagicSectionId,
                 aiLoadingState, improvingState, crashed>>

\* handleImproveQuestion after its await threw
ImproveCatch(k, error) ==
  LET c == calls[k] IN
  /\ alerted' = <<ImproveFailedMessage>>
  /\ improvingState' = NotImproving
  /\ calls' = RemoveAt(calls, k)
  /\ callResult' = Thrown(c, error)
  /\ UNCHANGED <<meta, sections, activeTab, activeSectionId, validationError, nextQid,
                 knowledgeContext, showLowContextWarning, pendingMagicSectionId,
                 aiLoadingState, crashed>>

----------------------------------------------------------------------------
(* Generation pipeline: bulk section fill *)

NotLoading == [loading |-> FALSE, sectionId |-> 0]

\* executeMagicFill up to its await
executeMagicFill(sectionId, useKnowledge) ==
  LET k == FindSection(sections, sectionId) IN
  /\ IF sectionId = 0 \/ k = 0
     THEN UNCHANGED <<aiLoadingState, showLowContextWarning, calls>>
     ELSE /\ aiLoadingState' = [loading |-> TRUE, sectionId |-> sectionId]
          /\ showLowContextWarning' = FALSE
          /\ calls' = Append(calls, NewCall("fill", sectionId, 0, sections[k].type))
  /\ UNCHANGED <<meta, sections, activeTab, activeSectionId, validationError, nextQid,
                 knowledgeContext, pendingMagicSectionId, improvingState, crashed>>

initiateMagicFill(sectionId) ==
  IF knowledgeContext = ""
  THEN /\ pendingMagicSectionId' = sectionId
       /\ showLowContextWarning' = TRUE
       /\ UNCHANGED <<meta, sections, activeTab, activeSectionId, validationError, nextQid,
                      knowledgeContext, aiLoadingState, improvingState, calls, crashed>>
  ELSE executeMagicFill(sectionId, TRUE)

\* variant: the merged object built without spreading the old question
MergedQuestion_NoSpread(q, gd, type) ==
  [EmptyObject EXCEPT
            !.text = gd.text,
            !.options = IF type = "mcq"
                        THEN (IF gd.options # Undefined THEN gd.options ELSE q.options)
                        ELSE <<>>,
            !.bloom = IF gd.bloom # UndefinedString /\ gd.bloom # "" THEN gd.bloom ELSE "R",
            !.co = IF gd.co # UndefinedString /\ gd.co # "" THEN gd.co ELSE "CO1"]

\* the object the merge builds for question q from reply item gd
MergedQuestion(q, gd, type) ==
  [q EXCEPT !.slot = "object",
            !.text = gd.text,
            !.options = IF type = "mcq"
                        THEN (IF gd.options # Undefined THEN gd.options ELSE q.options)
                        ELSE <<>>,
            !.bloom = IF gd.bloom # UndefinedString /\ gd.bloom # "" THEN gd.bloom ELSE "R",
            !.co = IF gd.co # UndefinedString /\ gd.co # "" THEN gd.co ELSE "CO1"]

\* generatedData[idx] is truthy
HasItem(generatedData, idx) ==
  generatedData.shape = "array" /\ idx <= Len(generatedData.items)

\* variant: reply items beyond the end of the list become new questions
MergedQuestions_AppendsExtra(s, generatedData) ==
  LET n == IF generatedData.shape = "array" THEN Len(generatedData.items) ELSE 0 IN
  [idx \in 1..Max({Len(s.questions), n}) |->
     IF idx > Len(s.questions)
     THEN MergedQuestion(EmptyObject, generatedData.items[idx], s.type)
     ELSE IF s.questions[idx].slot # "hole" /\ HasItem(generatedData, idx)
     THEN MergedQuestion(s.questions[idx], generatedData.items[idx], s.type)
     ELSE s.questions[idx]]

\* s.questions.map((q, idx) => generatedData[idx] ? {...} : q); map skips holes
MergedQuestions(s, generatedData) ==
  [idx \in SeqIndex(s.questions) |->
     IF s.questions[idx].slot # "hole" /\ HasItem(generatedData, idx)
     THEN MergedQuestion(s.questions[idx], generatedData.items[idx], s.type)
     ELSE s.questions[idx]]

\* setSections(prev => prev.map(...)) of executeMagicFill
MergeReply(secs, sectionId, generatedData) ==
  [i \in SeqIndex(secs) |->
     IF secs[i].id # sectionId THEN secs[i]
     ELSE [secs[i] EXCEPT !.questions = MergedQuestions(secs[i], generatedData)]]

\* the updater reads q.options of an undefined element and throws: React swallows
\* the error when it runs the updater eagerly and throws it again while rendering
MergeThrows(secs, sectionId, generatedData) ==
  \E i \in SeqIndex(secs) :
    /\ secs[i].id = sectionId /\ secs[i].type = "mcq"
    /\ \E idx \in SeqIndex(secs[i].questions) :
         /\ secs[i].questions[idx].slot = "undefined"
         /\ HasItem(generatedData, idx)
         /\ generatedData.items[idx].options = Undefined

\* executeMagicFill after its await returned rawText
FillResume(k, rawText) ==
  LET c == calls[k] IN
  /\ IF ~JsonParses(CleanReply(rawText))
     THEN /\ alerted' = <<GenerationFailedMessage>>
          /\ UNCHANGED <<sections, crashed>>
     ELSE LET generatedData == JsonParse(CleanReply(rawText)) IN
          /\ alerted' = <<>>
          /\ IF MergeThrows(sections, c.sectionId, generatedData)
             THEN crashed' = TRUE /\ UNCHANGED sections
             ELSE /\ sections' = MergeReply(sections, c.sectionId, generatedData)
                  /\ UNCHANGED crashed
  /\ aiLoadingState' = NotLoading
  /\ pendingMagicSectionId' = 0
  /\ calls' = RemoveAt(calls, k)
  /\ callResult' = Returned(c)
  /\ UNCHANGED <<meta, activeTab, activeSectionId, validationError, nextQid,
                 knowledgeContext, showLowContextWarning, improvingState>>

\* variant: the catch block logs and raises no alert
FillCatch_NoAlert(k, error) ==
  LET c == calls[k] IN
  /\ alerted' = <<>>
  /\ aiLoadingState' = NotLoading
  /\ pendingMagicSectionId' = 0
  /\ calls' = RemoveAt(calls, k)
  /\ callResult' = Thrown(c, error)
  /\ UNCHANGED <<meta, sections, activeTab, activeSectionId, validationError, nextQid,
                 knowledgeContext, showLowContextWarning, improvingState, crashed>>

\* executeMagicFill after its await threw
FillCatch(k, error) ==
  LET c == calls[k] IN
  /\ alerted' = <<GenerationFailedMessage>>
  /\ aiLoadingState' = NotLoading
  /\ pendingMagicSectionId' = 0
  /\ calls' = RemoveAt(calls, k)
  /\ callResult' = Thrown(c, error)
  /\ UNCHANGED <<meta, sections, activeTab, activeSectionId, validationError, nextQid,
                 knowledgeContext, showLowContextWarning, improvingState, crashed>>

\* the last attempt of a call fails: callGemini throws into its caller's catch
AttemptFailsLast(k, error) ==
  /\ calls[k].phase = "fetch"
  /\ CallAfterFailure(calls[k]).phase = "thrown"
  /\ IF calls[k].kind = "fill" THEN FillCatch(k, error) ELSE ImproveCatch(k, error)

\* an attempt answers with a success status and a JSON body: callGemini returns
\* the candidate text ("" when the body has none) to its caller
AttemptReturns(k, text) ==
  /\ calls[k].phase = "fetch"
  /\ IF calls[k].kind = "fill" THEN FillResume(k, text) ELSE ImproveResume(k, text)

\* one attempt of call k completes with response r
Attempt(k, r) ==
  IF AttemptError(r) # NoError
  THEN AttemptFailsRetry(k, AttemptError(r)) \/ AttemptFailsLast(k, AttemptError(r))
  ELSE AttemptReturns(k, AttemptText(r))

\* the knowledge bank's textarea
setKnowledgeContext(value) ==
  /\ knowledgeContext' = value
  /\ UNCHANGED <<meta, sections, activeTab, activeSectionId, validationError, nextQid,
                 showLowContextWarning, pendingMagicSectionId, aiLoadingState,
                 improvingState, calls, crashed>>

\* LowContextModal's 'Add Material'
onAddContext ==
  /\ showLowContextWarning' = FALSE
  /\ UNCHANGED <<meta, sections, activeTab, activeSectionId, validationError, nextQid,
                 knowledgeContext, pendingMagicSectionId, aiLoadingState,
                 improvingState, calls, crashed>>

----------------------------------------------------------------------------
(* Persistence: localStorage, the restore prompt, the auto-save effects *)

\* a key of localStorage holds << >> (no record) or << v >>, v being the value
\* the stored JSON text parses to
EmptyStorage == [qpf_meta |-> <<>>, qpf_sections |-> <<>>, qpf_knowledge |-> <<>>]

\* JSON.parse(JSON.stringify(q)) of an element of a questions array: undefined
\* and holes become null, properties holding undefined are left out (reading
\* them gives undefined again)
NullSlot == [EmptyObject EXCEPT !.slot = "null"]
StoredQuestion(q) == IF q.slot = "object" THEN q ELSE NullSlot
StoredSections(secs) ==
  [i \in SeqIndex(secs) |->
     [secs[i] EXCEPT !.questions =
        [j \in SeqIndex(secs[i].questions) |-> StoredQuestion(secs[i].questions[j])]]]

\* what the three auto-save effects write
Saved(m, secs, knowledge) ==
  [qpf_meta |-> <<m>>, qpf_sections |-> <<StoredSections(secs)>>,
   qpf_knowledge |-> <<knowledge>>]

\* loadFromStorage(key, defaultValue)
loadFromStorage(saved, defaultValue) ==
  IF saved = <<>> THEN defaultValue ELSE saved[1]

\* the auto-save effects after a render: they write unless the prompt is shown
AutoSave ==
  storage' = IF showRestorePrompt' THEN storage
             ELSE Saved(meta', sections', knowledgeContext')

\* a handler that leaves the prompt alone, and the effects that follow it
Persist == UNCHANGED <<showRestorePrompt, found, timeVars>> /\ AutoSave

\* The page is loaded: the component is constructed and its mount effects run
\* in declaration order, all of them with the showRestorePrompt of the first
\* render (false): the restore check asks for the prompt, the three auto-save
\* effects write the initial state.
Load ==
  /\ meta' = defaultMeta
  /\ sections' = defaultSections
  /\ activeTab' = "blueprint"
  /\ activeSectionId' = 1
  /\ validationError' = "null"
  /\ knowledgeContext' = ""
  /\ showLowContextWarning' = FALSE
  /\ pendingMagicSectionId' = 0
  /\ aiLoadingState' = [loading |-> FALSE, sectionId |-> 0]
  /\ improvingState' = [sectionId |-> 0, qIndex |-> 0, loading |-> FALSE]
  /\ calls' = <<>>
  /\ crashed' = FALSE
  /\ found' = storage
  /\ showRestorePrompt' = (storage.qpf_meta # <<>>)
  /\ storage' = Saved(defaultMeta, defaultSections, "")
  /\ UNCHANGED <<nextQid, timeVars>>

\* handleRestore, and the auto-save effects its render triggers
handleRestore ==
  /\ meta' = loadFromStorage(storage.qpf_meta, defaultMeta)
  /\ sections' = loadFromStorage(storage.qpf_sections, defaultSections)
  /\ knowledgeContext' = loadFromStorage(storage.qpf_knowledge, "")
  /\ showRestorePrompt' = FALSE
  /\ AutoSave
  /\ UNCHANGED <<activeTab, activeSectionId, validationError, nextQid,
                 showLowContextWarning, pendingMagicSectionId, aiLoadingState,
                 improvingState, calls, crashed, found, timeVars>>

\* handleDiscard: localStorage.clear(), the prompt closes, and the auto-save
\* effects run again because showRestorePrompt changed
handleDiscard ==
  /\ showRestorePrompt' = FALSE
  /\ storage' = Saved(meta, sections, knowledgeContext)
  /\ UNCHANGED <<meta, sections, activeTab, activeSectionId, validationError, nextQid,
                 knowledgeContext, showLowContextWarning, pendingMagicSectionId,
                 aiLoadingState, improvingState, calls, crashed, found, timeVars>>

----------------------------------------------------------------------------
(* What the user can do: the handlers behind the controls each tab renders *)

InitApp ==
  /\ meta = defaultMeta
  /\ sections = defaultSections
  /\ activeTab = "blueprint"
  /\ activeSectionId = 1
  /\ validationError = "null"
  /\ nextQid = 0
  /\ knowledgeContext = ""
  /\ showLowContextWarning = FALSE
  /\ pendingMagicSectionId = 0
  /\ aiLoadingState = NotLoading
  /\ improvingState = NotImproving
  /\ calls = <<>>
  /\ crashed = FALSE
  /\ alerted = <<>>
  /\ callResult = NoResult
  /\ storage = Saved(defaultMeta, defaultSections, "")
  /\ showRestorePrompt = FALSE
  /\ found = EmptyStorage
  /\ edits = 0

Init ==
  /\ InitApp
  /\ timeArgs = NoTimes
  /\ timeResult = NotComputed

\* the time helpers, applied to a start and an end time
InitTimes ==
  /\ InitApp
  /\ timeArgs \in [sh : Hours, sm : Minutes, eh : Hours, em : EndMinutes]
  /\ timeResult = NotComputed

\* the duration effect and getDurationString on the strings the inputs deliver
ShowTimes ==
  /\ timeResult = NotComputed
  /\ LET start == TimeString(timeArgs.sh, timeArgs.sm)
         end == TimeString(timeArgs.eh, timeArgs.em) IN
     timeResult' = [duration |-> calculateDurationText(start, end),
                    from |-> formatTime12Hour(start),
                    to |-> formatTime12Hour(end)]
  /\ UNCHANGED <<meta, sections, activeTab, activeSectionId, validationError, nextQid,
                 genVars, outVars, persistVars, timeArgs, edits>>

\* a step of the user (no alert, no callGemini result): one that counts against
\* MaxEdits, and one that does not
Quiet == alerted' = <<>> /\ callResult' = NoResult
Counted(A) == ~crashed /\ edits < MaxEdits /\ A /\ Persist /\ Quiet /\ edits' = edits + 1
Free(A) == ~crashed /\ A /\ Persist /\ Quiet /\ UNCHANGED edits

\* the user fills in the metadata form from the top: the first empty required field
FillNextField ==
  /\ activeTab = "blueprint"
  /\ \E i \in SeqIndex(RequiredFields) :
       /\ meta[RequiredFields[i]] = ""
       /\ \A j \in 1..(i - 1) : meta[RequiredFields[j]] # ""
       /\ Free(setMeta(RequiredFields[i], "x"))

\* the user fills in or clears any required field
EditAnyField ==
  /\ activeTab = "blueprint"
  /\ \E f \in RequiredFieldSet, v \in {"", "x"} : Free(setMeta(f, v))

\* the blueprint's section rows: Type, Total Qs, To Attempt (locked for mcq), Marks Each
EditSectionConfig ==
  /\ activeTab = "blueprint"
  /\ \E i \in SeqIndex(sections) :
       \/ \E t \in SectionTypes : Free(updateSection(sections[i].id, "type", t))
       \/ \E v \in Counts : Free(updateSection(sections[i].id, "qCount", v))
       \/ /\ sections[i].type # "mcq"
          /\ \E v \in Counts : Free(updateSection(sections[i].id, "attemptCount", v))
       \/ Free(updateSection(sections[i].id, "marksPerQ", MaxCount))

\* the Marks Each input of a section row
EditMarksEach ==
  /\ activeTab = "blueprint"
  /\ \E i \in SeqIndex(sections), v \in 1..MaxMarks :
       Free(updateSection(sections[i].id, "marksPerQ", v))

AddSection ==
  /\ activeTab = "blueprint"
  /\ NewSection(sections).id <= MaxSectionId
  /\ Free(addSection)

\* 'Add Section' once more than that, as one of the user's edits
AddSectionBeyond ==
  /\ activeTab = "blueprint"
  /\ NewSection(sections).id <= MaxSectionId + 1
  /\ Counted(addSection)

\* the delete button is disabled on the last section
DeleteSection ==
  /\ activeTab = "blueprint"
  /\ Len(sections) # 1
  /\ \E i \in SeqIndex(sections) : Free(deleteSection(sections[i].id))

\* the blueprint's Total Qs input alone
EditQCount ==
  /\ activeTab = "blueprint"
  /\ \E i \in SeqIndex(sections), v \in Counts :
       Counted(updateSection(sections[i].id, "qCount", v))

\* the blueprint's Type select alone
EditType ==
  /\ activeTab = "blueprint"
  /\ \E i \in SeqIndex(sections), t \in SectionTypes :
       t # sections[i].type /\ Counted(updateSection(sections[i].id, "type", t))

\* variant: the top bar's builder tab switching tabs like the other two
GoToBuilder_PlainTabSwitch == Free(setActiveTab("builder"))

\* 'Go to Content Builder' and the top bar's builder tab
GoToBuilder == Free(initializeBuilder)

\* 'Back to Structure' and the top bar's blueprint tab
BackToBlueprint == activeTab # "blueprint" /\ Free(setActiveTab("blueprint"))

\* 'Preview Paper' and the top bar's preview tab
GoToPreview == activeTab # "preview" /\ Free(setActiveTab("preview"))

SelectSection ==
  /\ activeTab = "builder"
  /\ \E i \in SeqIndex(sections) :
       sections[i].id # activeSectionId /\ Counted(setActiveSectionId(sections[i].id))

\* the builder's question text areas of the active section
EditQuestionText ==
  /\ activeTab = "builder"
  /\ \E i \in SeqIndex(sections) :
       /\ sections[i].id = activeSectionId
       /\ \E pos \in 1..MaxEditPos, t \in {<<>>, <<"word">>} :
            /\ pos <= Len(sections[i].questions)
            /\ Counted(updateQuestion(activeSectionId, pos, "text", t))

\* the builder's Bloom Level and Course Outcome selects of the active section
EditQuestionTags ==
  /\ activeTab = "builder"
  /\ \E i \in SeqIndex(sections) :
       /\ sections[i].id = activeSectionId
       /\ \E pos \in 1..MaxEditPos, tag \in {<<"bloom", "AP">>, <<"co", "CO2">>} :
            /\ pos <= Len(sections[i].questions)
            /\ sections[i].questions[pos][tag[1]] # tag[2]
            /\ Counted(updateQuestion(activeSectionId, pos, tag[1], tag[2]))

\* the image input of a question of the active section: handleImageUpload's
\* reader delivers the file as a data URL
UploadImage ==
  /\ activeTab = "builder"
  /\ \E i \in SeqIndex(sections) :
       /\ sections[i].id = activeSectionId
       /\ \E pos \in 1..MaxEditPos :
            /\ pos <= Len(sections[i].questions)
            /\ sections[i].questions[pos].image # "data:image"
            /\ Counted(updateQuestion(activeSectionId, pos, "image", "data:image"))

\* the wand menu of a question of the active section: Rephrase, Make Easier, Make Harder
ImproveQuestion ==
  /\ activeTab = "builder"
  /\ \E i \in SeqIndex(sections) :
       /\ sections[i].id = activeSectionId
       /\ \E pos \in 1..MaxEditPos, action \in ImproveActions :
            /\ pos <= Len(sections[i].questions)
            /\ sections[i].questions[pos].slot = "object"
            /\ Len(calls) < MaxCalls
            /\ Counted(handleImproveQuestion(activeSectionId, pos, action))

\* 'Auto-Fill Questions', disabled while aiLoadingState.loading
AutoFill ==
  /\ activeTab = "builder"
  /\ FindSection(sections, activeSectionId) # 0
  /\ ~aiLoadingState.loading
  /\ Len(calls) < MaxCalls
  /\ Counted(initiateMagicFill(activeSectionId))

\* LowContextModal: 'Generate Anyway' and 'Add Material', then the knowledge bank
GenerateAnyway ==
  showLowContextWarning /\ Len(calls) < MaxCalls /\ Free(executeMagicFill(pendingMagicSectionId, FALSE))

AddMaterial ==
  /\ showLowContextWarning
  /\ Free(onAddContext)

EditKnowledge ==
  /\ activeTab = "builder"
  /\ ~showLowContextWarning
  /\ \E v \in {"", "syllabus"} : v # knowledgeContext /\ Counted(setKnowledgeContext(v))

\* what the network and the timers do to the calls in flight
Network(A) == ~crashed /\ A /\ Persist /\ UNCHANGED edits

AttemptFails ==
  \E k \in SeqIndex(calls), r \in Responses :
    /\ AttemptError(r) # NoError
    /\ \/ Network(AttemptFailsRetry(k, AttemptError(r)))
       \/ Network(AttemptFailsLast(k, AttemptError(r)))

AttemptAnswers ==
  \E k \in SeqIndex(calls), r \in Responses :
    AttemptError(r) = NoError /\ Network(AttemptReturns(k, AttemptText(r)))

BackoffEnds == \E k \in SeqIndex(calls) : Network(TimerFires(k))

\* the browser reloads the page
Reload == edits < MaxEdits /\ Load /\ Quiet /\ edits' = edits + 1

\* RestoreModal: 'Restore Data' and 'Start Fresh'
Restore == showRestorePrompt /\ ~crashed /\ handleRestore /\ Quiet /\ UNCHANGED edits
Discard == showRestorePrompt /\ ~crashed /\ handleDiscard /\ Quiet /\ UNCHANGED edits

\* the service answers at once, with a reply of any shape
AnswersAnyShape ==
  \E k \in SeqIndex(calls), text \in ShapeReplyTexts : Network(AttemptReturns(k, text))

\* the blueprint alone: every section control
NextBlueprint == EditSectionConfig \/ AddSection \/ DeleteSection
SpecBlueprint == Init /\ [][NextBlueprint]_vars

\* addSection and deleteSection called in any order, for any id, between the
\* edits of the section rows
CallAddSection == NewSection(sections).id <= MaxSectionId /\ Free(addSection)
CallDeleteSection == \E id \in 1..MaxSectionId : Free(deleteSection(id))
NextSections == EditSectionConfig \/ CallAddSection \/ CallDeleteSection
SpecSections == Init /\ [][NextSections]_vars

\* the blueprint's section rows with every mark value
NextMarks == EditSectionConfig \/ EditMarksEach
SpecMarks == Init /\ [][NextMarks]_vars

\* the time helpers on every pair of sampled times
NextTimes == ShowTimes
SpecTimes == InitTimes /\ [][NextTimes]_vars

\* metadata validation: any metadata edit, the tabs
NextValidation == EditAnyField \/ GoToBuilder \/ BackToBlueprint \/ GoToPreview
SpecValidation == Init /\ [][NextValidation]_vars

\* blueprint <-> builder: counts change, the builder reconciles, texts are edited
NextSync ==
  \/ FillNextField
  \/ EditQCount
  \/ GoToBuilder
  \/ BackToBlueprint
  \/ SelectSection
  \/ EditQuestionText
SpecSync == Init /\ [][NextSync]_vars

\* the builder: text edits and the generation pipeline, interleaved
NextGeneration ==
  \/ FillNextField
  \/ GoToBuilder
  \/ SelectSection
  \/ EditQuestionText
  \/ ImproveQuestion
  \/ AutoFill
  \/ GenerateAnyway
  \/ AddMaterial
  \/ EditKnowledge
  \/ AttemptFails
  \/ AttemptAnswers
  \/ BackoffEnds
SpecGeneration == Init /\ [][NextGeneration]_vars

\* the builder with a service that answers every request, in any shape
NextShape ==
  \/ FillNextField
  \/ GoToBuilder
  \/ SelectSection
  \/ EditQuestionText
  \/ ImproveQuestion
  \/ AutoFill
  \/ GenerateAnyway
  \/ AnswersAnyShape
SpecShape == Init /\ [][NextShape]_vars

\* bulk fills of sections of any length, answered at once
NextMerge ==
  \/ FillNextField
  \/ EditQCount
  \/ GoToBuilder
  \/ SelectSection
  \/ EditQuestionText
  \/ EditQuestionTags
  \/ AutoFill
  \/ GenerateAnyway
  \/ AnswersAnyShape
SpecMerge == Init /\ [][NextMerge]_vars

\* calls that outlive their target: while a call is in flight the user goes back
\* to the blueprint, shrinks or deletes sections and enters the builder again
NextStale ==
  \/ FillNextField
  \/ EditQCount
  \/ DeleteSection
  \/ GoToBuilder
  \/ BackToBlueprint
  \/ EditQuestionText
  \/ ImproveQuestion
  \/ AutoFill
  \/ GenerateAnyway
  \/ AnswersAnyShape
SpecStale == Init /\ [][NextStale]_vars

\* the active section pointer: sections are added and selected, the page is
\* reloaded and the stored sections are restored under the pointer
NextPointer ==
  \/ FillNextField
  \/ AddSectionBeyond
  \/ GoToBuilder
  \/ BackToBlueprint
  \/ SelectSection
  \/ Reload
  \/ Restore
  \/ Discard
SpecPointer == Init /\ [][NextPointer]_vars

\* sections of every type: the type is changed, the builder is entered again,
\* questions are edited, revised and filled
NextTypes ==
  \/ FillNextField
  \/ EditType
  \/ GoToBuilder
  \/ BackToBlueprint
  \/ SelectSection
  \/ EditQuestionText
  \/ ImproveQuestion
  \/ AutoFill
  \/ GenerateAnyway
  \/ AnswersAnyShape
SpecTypes == Init /\ [][NextTypes]_vars

\* the generation pipeline with a network whose attempts all settle and timers
\* that all fire
NextLive ==
  \/ FillNextField
  \/ GoToBuilder
  \/ SelectSection
  \/ EditQuestionText
  \/ ImproveQuestion
  \/ AutoFill
  \/ GenerateAnyway
  \/ AttemptFails
  \/ AttemptAnswers
  \/ BackoffEnds
SpecLive ==
  /\ Init
  /\ [][NextLive]_vars
  /\ WF_vars(AttemptFails \/ AttemptAnswers)
  /\ WF_vars(BackoffEnds)

\* edits under a bulk fill: while the call is in flight the user edits texts,
\* images, types and counts, in the builder and in the blueprint
NextEdits ==
  \/ FillNextField
  \/ EditQCount
  \/ EditType
  \/ GoToBuilder
  \/ BackToBlueprint
  \/ SelectSection
  \/ EditQuestionText
  \/ UploadImage
  \/ AutoFill
  \/ GenerateAnyway
  \/ AnswersAnyShape
SpecEdits == Init /\ [][NextEdits]_vars

\* sessions: the paper is edited, the page is reloaded, the prompt is answered
NextPersistence ==
  \/ FillNextField
  \/ EditQCount
  \/ GoToBuilder
  \/ EditQuestionText
  \/ EditKnowledge
  \/ Reload
  \/ Restore
  \/ Discard
SpecPersistence == Init /\ [][NextPersistence]_vars

\* everything the user, the network and the timers can do
Next ==
  NextBlueprint \/ NextSections \/ NextMarks \/ NextValidation \/ NextSync \/ NextGeneration \/ NextShape \/ NextMerge \/ NextStale \/ NextPointer \/ NextTypes \/ NextLive \/ NextEdits
  \/ NextPersistence
Spec == Init /\ [][Next]_vars

----------------------------------------------------------------------------
(* Properties *)

Min(a, b) == IF a < b THEN a ELSE b

\* a step of initializeBuilder that passes the validation
SuccessfulInit == missing(meta) = {} /\ initializeBuilder

\* C1: in every reachable state every section has attemptCount <= qCount.
C1_AttemptWithinCount ==
  \A i \in SeqIndex(sections) : sections[i].attemptCount <= sections[i].qCount

C3_ClampDownNeverUp ==
  [][\A i \in SeqIndex(sections), v \in Counts :
       (sections[i].type # "mcq" /\ updateSection(sections[i].id, "qCount", v))
       => /\ sections'[i].qCount = v
          /\ sections'[i].attemptCount =
               IF v < sections[i].attemptCount THEN v ELSE sections[i].attemptCount]_vars

\* the default section 2 (4 questions, 2 to attempt) after qCount went down to 1
\* and up again to 2: attemptCount stays 1
C3_Witness ==
  \E i \in SeqIndex(sections) :
    /\ sections[i].id = 2 /\ sections[i].marksPerQ = 3 /\ sections[i].type = "subjective"
    /\ sections[i].qCount = 2 /\ sections[i].attemptCount = 1

\* a question as initializeBuilder creates it for a section of the given type
IsBlankQuestion(q, type) ==
  /\ q.text = <<>> /\ q.image = "null" /\ q.co = "CO1" /\ q.bloom = "R"
  /\ q.options = IF type = "mcq"
                 THEN <<"Option A", "Option B", "Option C", "Option D">> ELSE <<>>

\* C4: a successful initializeBuilder leaves every section with exactly qCount
\* questions: a longer list is cut to its first qCount entries, a shorter one
\* is extended at the end with blank questions; nothing else of a section changes.
C4_ReconcileToCount ==
  [][SuccessfulInit =>
       /\ Len(sections') = Len(sections)
       /\ \A k \in SeqIndex(sections) :
            LET old == sections[k].questions
                new == sections'[k].questions
                n == sections[k].qCount IN
            /\ sections'[k] = [sections[k] EXCEPT !.questions = new]
            /\ Len(new) = n
            /\ Len(old) >= n => new = SubSeq(old, 1, n)
            /\ Len(old) < n =>
                 /\ SubSeq(new, 1, Len(old)) = old
                 /\ \A j \in (Len(old) + 1)..n : IsBlankQuestion(new[j], sections[k].type)]_vars

\* in the builder, section 1 was cut from the default 6 questions to 1 and the
\* subjective section 2 holds the 4 blank questions created for it
C4_Witness ==
  /\ activeTab = "builder"
  /\ Len(sections) = 2
  /\ sections[1].qCount = 1 /\ Len(sections[1].questions) = 1
  /\ sections[1].questions[1].id = 1
  /\ sections[2].qCount = 4 /\ Len(sections[2].questions) = 4
  /\ sections[2].questions[4].options = <<>>

\* C5: initializeBuilder is idempotent on the question lists: reconciling the
\* sections a successful run produced changes nothing.
C5_ReconcileIdempotent ==
  [][SuccessfulInit => Reconcile(sections', nextQid') = sections']_vars

\* the builder was entered, a question was edited there, and the lists match the
\* counts: entering the builder again from here is the second run in succession
C5_Witness ==
  /\ activeTab = "builder"
  /\ missing(meta) = {}
  /\ \E k \in SeqIndex(sections) :
       /\ Len(sections[k].questions) = sections[k].qCount
       /\ sections[k].questions[1].text # <<>>

\* C6: a successful initializeBuilder keeps every question that stays at its
\* index with its id and content, and every question it adds is a new blank one:
\* its id was never handed out before, so no discarded question comes back.
C6_PrefixKeptNoResurrection ==
  [][SuccessfulInit =>
       \A k \in SeqIndex(sections) :
         LET old == sections[k].questions
             new == sections'[k].questions IN
         /\ \A j \in 1..Min(Len(old), Len(new)) : new[j] = old[j]
         /\ \A j \in (Len(old) + 1)..Len(new) :
              /\ new[j].id > nextQid
              /\ new[j].text = <<>>
              /\ \A k2 \in SeqIndex(sections) :
                   \A j2 \in SeqIndex(sections[k2].questions) :
                     sections[k2].questions[j2].id # new[j].id]_vars

\* section 1 after its first question was edited, qCount went down to 1, the
\* builder reconciled, qCount went up to 2 and the builder reconciled again: the
\* edited question is still first, the second is a blank one with a later id
C6_Witness ==
  /\ activeTab = "builder"
  /\ sections[1].qCount = 2 /\ Len(sections[1].questions) = 2
  /\ sections[1].questions[1].id = 1
  /\ sections[1].questions[1].text = <<"word">>
  /\ sections[1].questions[2].id > 10
  /\ sections[1].questions[2].text = <<>>

\* one of the eleven required Metadata fields is empty
SomeRequiredFieldEmpty ==
  \E f \in {"schoolName", "branch", "semester", "academicYear", "examType", "courseCode",
            "courseName", "examDate", "startTime", "endTime", "specializations"} :
    meta[f] = ""

\* C7: with a required Metadata field empty, initializeBuilder sets the
\* validation error and changes neither sections, meta, activeTab nor activeSectionId.
C7_ValidationBlocks ==
  [][(SomeRequiredFieldEmpty /\ initializeBuilder) =>
       /\ validationError' = "Please fill in all required fields marked with *"
       /\ UNCHANGED <<sections, meta, activeTab, activeSectionId>>]_vars

\* the error is shown on the blueprint while 'specializations' alone is empty
C7_Witness ==
  /\ validationError # "null"
  /\ activeTab = "blueprint"
  /\ meta["specializations"] = ""
  /\ \A f \in RequiredFieldSet \ {"specializations"} : meta[f] # ""
  /\ \A k \in SeqIndex(sections) : sections[k].questions = <<>>

\* what the step of call k on response r has to do, success telling whether the
\* attempt counts as answered
RetryPolicy(k, r, success) ==
  LET c == calls[k]
      wait == <<1000, 2000, 4000>> IN
  /\ c.attempts <= 4
  /\ c.waited = SubSeq(wait, 1, c.attempts - 1)
  /\ IF success
     THEN /\ callResult'.outcome = "returned"
          /\ callResult'.attempts = c.attempts
          /\ callResult'.waited = c.waited
          /\ Len(calls') = Len(calls) - 1
     ELSE IF c.attempts < 4
     THEN /\ callResult'.outcome = "none"
          /\ Len(calls') = Len(calls)
          /\ calls'[k].phase = "sleep"
          /\ calls'[k].attempts = c.attempts
          /\ calls'[k].waited = Append(c.waited, wait[c.attempts])
     ELSE /\ callResult'.outcome = "thrown"
          /\ callResult'.error = AttemptError(r)
          /\ callResult'.attempts = 4
          /\ callResult'.waited = wait
          /\ Len(calls') = Len(calls) - 1

\* the wait of call k is over: the next attempt starts, nothing is waited again
NextAttempt(k) ==
  /\ calls'[k].phase = "fetch"
  /\ calls'[k].attempts = calls[k].attempts + 1
  /\ calls'[k].waited = calls[k].waited

FailureAlert(kind) ==
  IF kind = "fill" THEN "AI Generation failed. Try again."
  ELSE "AI improvement failed. Please try again."

\* C9: while the attempts of a generation call (bulk fill or revision) fail one
\* after the other, no section changes and nothing is reported until the 4th
\* attempt fails; that step raises exactly one alert, the entry point's failure
\* message, and still changes no section and no question.
C9_ExhaustionReportedOnceModelKept ==
  [][/\ \A k \in SeqIndex(calls), r \in Responses :
          (AttemptError(r) # NoError /\ Attempt(k, r))
          => /\ sections' = sections
             /\ alerted' = IF calls[k].attempts = 4
                           THEN <<FailureAlert(calls[k].kind)>> ELSE <<>>
     /\ \A k \in SeqIndex(calls) :
          TimerFires(k) => sections' = sections /\ alerted' = <<>>]_vars

\* a bulk fill just failed on its 4th attempt and was reported, over a section
\* list holding an edited question, while a revision is on its own 4th attempt
C9_Witness ==
  /\ callResult.outcome = "thrown"
  /\ callResult.attempts = 4
  /\ alerted = <<"AI Generation failed. Try again.">>
  /\ \E i \in SeqIndex(sections) :
       Len(sections[i].questions) > 0 /\ sections[i].questions[1].text = <<"word">>
  /\ \E k \in SeqIndex(calls) :
       calls[k].kind = "improve" /\ calls[k].attempts = 4 /\ calls[k].phase = "fetch"

\* text without its code fences and the white space around it is one JSON document
ParsesAfterCleaning(text) ==
  LET unfenced == SelectSeq(text, LAMBDA t : t \notin {"<fence>json", "<fence>"})
      inner == SelectSeq(unfenced, LAMBDA t : t # " ") IN
  /\ Len(inner) = 1
  /\ inner[1] \in {"[{text,options,bloom,co},{text,options,bloom,co}]", "[{text},{text}]",
                   "{text,options}", "{text}"}
  /\ \A j \in SeqIndex(unfenced) :
       unfenced[j] = " " \/ unfenced[j] = inner[1]

\* C10: when the reply a bulk fill gets, with its code fences stripped and
\* trimmed, does not parse (the empty reply included), executeMagicFill changes
\* no question of any section and raises the generation-failed alert; starting
\* the fill changes no question either.
C10_UnparseableReplyKeepsQuestions ==
  [][/\ \A k \in SeqIndex(calls), r \in Responses :
          (/\ calls[k].kind = "fill"
           /\ AttemptError(r) = NoError
           /\ ~ParsesAfterCleaning(AttemptText(r))
           /\ Attempt(k, r))
          => /\ sections' = sections
             /\ alerted' = <<"AI Generation failed. Try again.">>
     /\ \A id \in SectionIds(sections) :
          executeMagicFill(id, TRUE) => sections' = sections]_vars

\* a bulk fill got a reply (no error from the transport), raised the alert, and
\* the section list still holds the question the user edited before
C10_Witness ==
  /\ callResult.outcome = "returned"
  /\ alerted = <<"AI Generation failed. Try again.">>
  /\ ~aiLoadingState.loading
  /\ \E i \in SeqIndex(sections) :
       /\ Len(sections[i].questions) > 1
       /\ sections[i].questions[1].text = <<"word">>
       /\ sections[i].questions[2].text = <<>>

\* the parsed reply has the shape the bulk-fill prompt mandates: a list whose
\* items all have a text
IsQuestionList(data) ==
  data.shape = "array" /\ \A j \in SeqIndex(data.items) : data.items[j].text # Undefined

\* the parsed reply has the shape the revision prompt mandates for a
\* multiple-choice question: an object with a text
IsRevisedQuestion(data) == data.shape = "object" /\ data.text # Undefined

\* C11: a reply that parses but has not the mandated shape (bulk fill: not a
\* list, or an item without text; multiple-choice revision: an object without
\* text) makes the call fail (the failure alert is raised) and changes no
\* question: sections stay as they are.
C11_WrongShapeRejected ==
  [][\A k \in SeqIndex(calls), text \in ShapeReplyTexts :
       (/\ AttemptReturns(k, text)
        /\ JsonParses(CleanReply(text))
        /\ \/ calls[k].kind = "fill" /\ ~IsQuestionList(JsonParse(CleanReply(text)))
           \/ /\ calls[k].kind = "improve" /\ calls[k].type = "mcq"
              /\ ~IsRevisedQuestion(JsonParse(CleanReply(text))))
       => /\ sections' = sections
          /\ alerted' = <<FailureAlert(calls[k].kind)>>]_vars

\* calls a and b are for the same target: bulk fills of one section, or
\* revisions of one question of one section
SameTarget(a, b) ==
  /\ a.kind = b.kind
  /\ a.sectionId = b.sectionId
  /\ a.kind = "improve" => a.pos = b.pos

\* C12: at most one generation call is outstanding per target: no two bulk
\* fills of the same section and no two revisions of the same (section, index)
\* are in flight at once.
C12_OneCallPerTarget ==
  \A j, k \in SeqIndex(calls) : j # k => ~SameTarget(calls[j], calls[k])

\* the earlier session left all three records
SessionFound ==
  found.qpf_meta # <<>> /\ found.qpf_sections # <<>> /\ found.qpf_knowledge # <<>>

\* C13: when the page load found the records M, S and K of an earlier session
\* and the user chooses Restore at the prompt, meta, sections and
\* knowledgeContext become M, S and K.
C13_RestoreRoundTrips ==
  [][(showRestorePrompt /\ SessionFound /\ handleRestore)
     => /\ meta' = found.qpf_meta[1]
        /\ sections' = found.qpf_sections[1]
        /\ knowledgeContext' = found.qpf_knowledge[1]]_vars

\* C14: when the user chooses Discard at the prompt, after the handler and the
\* auto-save effects it triggers none of the three storage records exists.
C14_DiscardLeavesNoRecord ==
  [][(showRestorePrompt /\ handleDiscard)
     => /\ storage'.qpf_meta = <<>>
        /\ storage'.qpf_sections = <<>>
        /\ storage'.qpf_knowledge = <<>>]_vars

\* the marks of the sections at positions 1..n, summed
RECURSIVE MarksUpTo(_)
MarksUpTo(n) ==
  IF n = 0 THEN 0
  ELSE MarksUpTo(n - 1) + sections[n].attemptCount * sections[n].marksPerQ

\* C15: in every state the total paper marks are the sum over all sections of
\* attemptCount * marksPerQ, and the category is the internal one exactly when
\* that sum is <= 30, the external one otherwise.
C15_TotalAndCategory ==
  LET sum == MarksUpTo(Len(sections)) IN
  /\ totalPaperMarks(sections) = sum
  /\ examCategory(totalPaperMarks(sections)) =
       IF sum <= 30 THEN "INTERNAL / REMEDIAL" ELSE "EXTERNAL / FINAL"

\* the default paper (6 x 1 + 2 x 3 = 12) after section 1 went to 4 marks each:
\* 6 x 4 + 2 x 3 = 30, still internal, with fewer questions attempted than set
C15_Witness ==
  /\ Len(sections) = 2
  /\ sections[1].attemptCount = 6 /\ sections[1].marksPerQ = 4
  /\ sections[2].attemptCount = 2 /\ sections[2].marksPerQ = 3
  /\ sections[2].qCount = 4
  /\ totalPaperMarks(sections) = 30
  /\ examCategory(totalPaperMarks(sections)) = "INTERNAL / REMEDIAL"

\* C16: for all start and end times of the day calculateDurationText reports
\* the elapsed minutes (end - start) mod 1440: 'N Hr' when the hours are > 0,
\* 'N Mins' when the minutes are > 0, a space between the two, and the empty
\* string when start equals end.
C16_DurationWrapsForward ==
  timeResult # NotComputed =>
    LET elapsed == ((timeArgs.eh * 60 + timeArgs.em) - (timeArgs.sh * 60 + timeArgs.sm)) % 1440
        h == elapsed \div 60
        m == elapsed % 60
        hr == IF h > 0 THEN Numeral(h) \o <<" ", "H", "r">> ELSE <<>>
        mins == IF m > 0 THEN Numeral(m) \o <<" ", "M", "i", "n", "s">> ELSE <<>>
    IN /\ elapsed >= 0
       /\ timeResult.duration =
            IF h > 0 /\ m > 0 THEN hr \o <<" ">> \o mins ELSE hr \o mins
       /\ (timeArgs.sh = timeArgs.eh /\ timeArgs.sm = timeArgs.em) => timeResult.duration = <<>>

\* 23:00 to 01:00 was computed: '2 Hr'
C16_Witness ==
  /\ timeArgs = [sh |-> 23, sm |-> 0, eh |-> 1, em |-> 0]
  /\ timeResult.duration = <<"2", " ", "H", "r">>

\* C17: for every time of the day formatTime12Hour shows hours 0 and 12 as 12
\* and hours 13..23 as 1..11, keeps the two minute digits, and ends in AM for
\* hours 0..11 and PM for hours 12..23.
C17_TwelveHourClock ==
  timeResult # NotComputed =>
    LET h == timeArgs.sh
        shown == IF h = 0 \/ h = 12 THEN 12 ELSE IF h >= 13 THEN h - 12 ELSE h
        suffix == IF h <= 11 THEN <<"A", "M">> ELSE <<"P", "M">>
    IN timeResult.from =
         Numeral(shown) \o <<":", Digits[(timeArgs.sm \div 10) + 1],
                              Digits[(timeArgs.sm % 10) + 1], " ">> \o suffix

\* 12:00 was formatted: '12:00 PM', and the end time 00:00 next to it: '12:00 AM'
C17_Witness ==
  /\ timeArgs = [sh |-> 12, sm |-> 0, eh |-> 0, em |-> 0]
  /\ timeResult.from = <<"1", "2", ":", "0", "0", " ", "P", "M">>
  /\ timeResult.to = <<"1", "2", ":", "0", "0", " ", "A", "M">>

\* C18: the section list is never empty: it has a section at the start, every
\* addSection and deleteSection call leaves at least one, and deleteSection on
\* the only remaining section changes neither the list nor the active section.
C18_SectionListNeverEmpty ==
  /\ [](Len(sections) >= 1)
  /\ [][\A id \in 1..MaxSectionId :
          (Len(sections) = 1 /\ deleteSection(id))
          => sections' = sections /\ activeSectionId' = activeSectionId]_vars

\* section 1 was deleted and section 2 is the only one left: deleteSection(2)
\* now meets the single remaining section
C18_Witness ==
  /\ Len(sections) = 1
  /\ sections[1].id = 2
  /\ activeSectionId = 2

\* call k is a bulk fill and text is a reply to it that parses to a list
ListReplyToFill(k, text) ==
  /\ calls[k].kind = "fill"
  /\ JsonParses(CleanReply(text))
  /\ JsonParse(CleanReply(text)).shape = "array"

\* C19: when a parsed bulk-fill reply of n items is applied to a section, item
\* i is written onto the question at index i (which keeps its id and image)
\* for every i < n the section has, every question at an index >= n is
\* unchanged, the number of questions does not change (items beyond the list
\* are ignored), and no other section changes.
C19_MergeIsPositional ==
  [][\A k \in SeqIndex(calls), text \in ShapeReplyTexts :
       (ListReplyToFill(k, text) /\ AttemptReturns(k, text))
       => LET items == JsonParse(CleanReply(text)).items IN
          /\ Len(sections') = Len(sections)
          /\ \A i \in SeqIndex(sections) :
               LET old == sections[i].questions
                   new == sections'[i].questions IN
               IF sections[i].id # calls[k].sectionId
               THEN sections'[i] = sections[i]
               ELSE /\ sections'[i] = [sections[i] EXCEPT !.questions = new]
                    /\ Len(new) = Len(old)
                    /\ \A j \in SeqIndex(old) :
                         IF j <= Len(items)
                         THEN /\ new[j].text = items[j].text
                              /\ new[j].id = old[j].id
                              /\ new[j].image = old[j].image
                              /\ items[j].bloom # UndefinedString => new[j].bloom = items[j].bloom
                              /\ items[j].co # UndefinedString => new[j].co = items[j].co
                              /\ (sections[i].type = "mcq" /\ items[j].options # Undefined)
                                   => new[j].options = items[j].options
                         ELSE new[j] = old[j]]_vars

\* section 1 was cut to one question and then filled from a reply of two
\* items: it still has one question, holding the first item
C19_Witness ==
  /\ callResult.outcome = "returned"
  /\ alerted = <<>>
  /\ Len(sections[1].questions) = 1
  /\ sections[1].questions[1].text = <<"generated", "1">>
  /\ sections[1].questions[1].bloom = "AP"
  /\ sections[1].questions[1].id = 1

\* C20: when an item of a bulk-fill reply omits bloom, co or options, the
\* merged question keeps the value that field had before the merge.
C20_OmittedFieldsKept ==
  [][\A k \in SeqIndex(calls), text \in ShapeReplyTexts :
       (ListReplyToFill(k, text) /\ AttemptReturns(k, text))
       => LET items == JsonParse(CleanReply(text)).items IN
          \A i \in SeqIndex(sections) :
            sections[i].id = calls[k].sectionId =>
              \A j \in SeqIndex(sections[i].questions) :
                j <= Len(items) =>
                  LET old == sections[i].questions[j]
                      new == sections'[i].questions[j] IN
                  /\ items[j].bloom = UndefinedString => new.bloom = old.bloom
                  /\ items[j].co = UndefinedString => new.co = old.co
                  /\ items[j].options = Undefined => new.options = old.options]_vars

\* the target of call c is gone from secs: its section, or (for a revision) its
\* question index
TargetGone(secs, c) ==
  \/ FindSection(secs, c.sectionId) = 0
  \/ /\ c.kind = "improve"
     /\ c.pos > Len(secs[FindSection(secs, c.sectionId)].questions)

\* C21: when a generation call completes after its target no longer exists
\* (the section was deleted, or the question index of a revision is past the
\* end of the section's list), applying the result changes nothing: sections is
\* left as it was.
C21_StaleResultDropped ==
  [][\A k \in SeqIndex(calls), text \in ShapeReplyTexts :
       (TargetGone(sections, calls[k]) /\ AttemptReturns(k, text))
       => sections' = sections]_vars

\* response r has a success status and a malformed body: one that is not JSON,
\* or JSON without the candidate text
MalformedBody(r) ==
  r.fetch = "resolved" /\ r.ok /\ (~r.json \/ r.text = Undefined)

\* C22: an attempt whose response has a success status but a malformed body
\* counts as a failed attempt: callGemini sleeps and retries (or throws on the
\* fourth attempt), nothing is returned to the caller and no question changes.
C22_MalformedBodyIsFailure ==
  [][\A k \in SeqIndex(calls), r \in Responses :
       (MalformedBody(r) /\ Attempt(k, r))
       => /\ callResult'.outcome # "returned"
          /\ sections' = sections
          /\ calls[k].i < Len(delays)
               => /\ Len(calls') = Len(calls)
                  /\ calls'[k].phase = "sleep"]_vars

\* C23: after a successful initializeBuilder activeSectionId is the id of a
\* section of the list; if the previously active id is no longer in the list
\* it is replaced by the id of the first section.
C23_ActivePointerRepaired ==
  [][SuccessfulInit =>
       /\ activeSectionId' \in SectionIds(sections')
       /\ activeSectionId \notin SectionIds(sections)
            => activeSectionId' = sections'[1].id]_vars

\* the builder after the third section was added, selected and then lost to a
\* restore of the two stored sections: the pointer is back on section 1 and
\* the restored sections got their questions anew
C23_Witness ==
  /\ activeTab = "builder"
  /\ activeSectionId = 1
  /\ SectionIds(sections) = {1, 2}
  /\ ~showRestorePrompt
  /\ found # EmptyStorage
  /\ edits = MaxEdits
  /\ nextQid = 23

\* C24: handleImproveQuestion on a question whose text is empty is a no-op,
\* for every action and every section type: no call is started, the improving
\* state is not set and sections is unchanged.
C24_EmptyTextNoOp ==
  [][\A i \in SeqIndex(sections), pos \in 1..MaxEditPos, action \in ImproveActions :
       ( /\ pos <= Len(sections[i].questions)
         /\ sections[i].questions[pos].slot = "object"
         /\ sections[i].questions[pos].text = <<>>
         /\ handleImproveQuestion(sections[i].id, pos, action) )
       => /\ calls' = calls
          /\ improvingState' = improvingState
          /\ aiLoadingState' = aiLoadingState
          /\ sections' = sections]_vars

\* section 2 was made a fill-in-the-blank section, selected in the builder and
\* the revision of one of its blank questions was asked for: nothing started
C24_Witness ==
  /\ activeTab = "builder"
  /\ activeSectionId = 2
  /\ sections[2].type = "fillblank"
  /\ \A j \in SeqIndex(sections[2].questions) : sections[2].questions[j].text = <<>>
  /\ edits = MaxEdits
  /\ calls = <<>>
  /\ improvingState = NotImproving

\* every question of secs has four options in a multiple-choice section and
\* none in any other
OptionsMatchType(secs) ==
  \A i \in SeqIndex(secs) : \A j \in SeqIndex(secs[i].questions) :
    Len(secs[i].questions[j].options) = IF secs[i].type = "mcq" THEN 4 ELSE 0

\* C25: after every reconciliation a question's options list has exactly 4
\* entries when its section is multiple-choice and is empty otherwise, also
\* after the section's type was changed and the builder entered again.
C25_OptionsFollowType ==
  [][SuccessfulInit => OptionsMatchType(sections')]_vars

\* C26: every step that changes the active tab to 'builder', from the blueprint
\* or from the preview, starts in a state where all eleven required metadata
\* fields are non-empty.
C26_BuilderNeedsMetadata ==
  [][(activeTab # "builder" /\ activeTab' = "builder")
       => /\ Cardinality(RequiredFieldSet) = 11
          /\ \A f \in RequiredFieldSet : meta[f] # ""]_vars

\* the builder, entered once every required field was filled in: the sections
\* are reconciled and no validation error is shown
C26_Witness ==
  /\ activeTab = "builder"
  /\ validationError = "null"
  /\ \A i \in SeqIndex(sections) : Len(sections[i].questions) = sections[i].qCount
  /\ \A f \in RequiredFieldSet : meta[f] = "x"

\* C27: whenever the active tab is 'builder', every section's questions list
\* has exactly qCount entries, whatever tab switches, blueprint edits,
\* re-entries into the builder and completions of calls came before.
C27_BuilderListsMatchCounts ==
  activeTab = "builder"
    => \A i \in SeqIndex(sections) : Len(sections[i].questions) = sections[i].qCount

Idle ==
  /\ calls = <<>>
  /\ ~aiLoadingState.loading
  /\ ~improvingState.loading

\* C29: every generation call that starts eventually ends with its busy flag
\* cleared, given that every attempt settles and every timer fires: no call
\* makes more than 4 attempts, and from every state with a call in flight or a
\* busy flag set a state is reached where no call is left and both
\* aiLoadingState and improvingState are idle.
C29_CallsEndIdle ==
  /\ [](\A k \in SeqIndex(calls) : calls[k].attempts <= Len(delays) + 1)
  /\ (~Idle) ~> Idle

\* a revision gave up after its fourth attempt failed: the failure was
\* reported and nothing is busy any more
C29_Witness ==
  /\ Idle
  /\ callResult.outcome = "thrown"
  /\ callResult.attempts = Len(delays) + 1
  /\ alerted = <<ImproveFailedMessage>>

\* the section fields the blueprint sets
SectionConfigFields == {"id", "title", "desc", "type", "qCount", "attemptCount", "marksPerQ"}

\* C30: edits made while a bulk fill is outstanding are not lost when its
\* reply is applied: the merge works on the sections as they are at completion.
\* Every other section is unchanged; the target section keeps its title, type,
\* qCount, attemptCount and marksPerQ, its number of questions and each
\* question's id and image; questions the reply does not cover are unchanged.
C30_MergeKeepsEdits ==
  [][\A k \in SeqIndex(calls), text \in ShapeReplyTexts :
       ( /\ calls[k].kind = "fill"
         /\ JsonParses(CleanReply(text))
         /\ AttemptReturns(k, text) )
       => LET data == JsonParse(CleanReply(text))
              n == IF data.shape = "array" THEN Len(data.items) ELSE 0 IN
          /\ Len(sections') = Len(sections)
          /\ \A i \in SeqIndex(sections) :
               IF sections[i].id # calls[k].sectionId
               THEN sections'[i] = sections[i]
               ELSE /\ \A f \in SectionConfigFields : sections'[i][f] = sections[i][f]
                    /\ Len(sections'[i].questions) = Len(sections[i].questions)
                    /\ \A j \in SeqIndex(sections[i].questions) :
                         /\ sections'[i].questions[j].id = sections[i].questions[j].id
                         /\ sections'[i].questions[j].image = sections[i].questions[j].image
                         /\ j > n => sections'[i].questions[j] = sections[i].questions[j]]_vars

\* a fill of section 1 was answered in the blueprint after the section was made
\* subjective and got an image: question 1 has the generated text, no options
\* (the type at completion), its id and its image; question 3 is as it was
C30_Witness ==
  /\ activeTab = "blueprint"
  /\ callResult.outcome = "returned"
  /\ sections[1].type = "subjective"
  /\ sections[1].questions[1].text = <<"generated", "1">>
  /\ sections[1].questions[1].options = <<>>
  /\ sections[1].questions[1].id = 1
  /\ sections[1].questions[1].image = "data:image"
  /\ sections[1].questions[3].options = DefaultOptions
====
